---- MODULE Spec2Model ----
(***************************************************************************)
(* Model of the pharmacogenomic prototype: the two file parsers of         *)
(* utils.py (parse_23andme_csv, parse_vcf) and the rule engine of model.py *)
(* (the four gene decision functions and compute_drug_scores).             *)
(*                                                                         *)
(* Python str values are TLA+ strings; a character is a string of length   *)
(* one.  Python dicts are functions whose DOMAIN is the key set.  Python   *)
(* lists are sequences (1-based here, 0-based in the source).              *)
(***************************************************************************)
EXTENDS Integers, Sequences, FiniteSets, TLC

VARIABLES entry, text, df, snp_dict, pc, records, results

vars == <<entry, text, df, snp_dict, pc, records, results>>

----------------------------------------------------------------------------
(* Bounds of the explored inputs.                                          *)

\* number of lines of an uploaded VCF text
MaxLines == 3
\* number of data rows of an uploaded table (the header line not counted)
MaxRows == 2

----------------------------------------------------------------------------
(* Python built-ins used by the source, computed as Python computes them.  *)

Char(s, i) == SubSeq(s, i, i)

\* s.startswith(p)
StartsWith(s, p) == Len(s) >= Len(p) /\ SubSeq(s, 1, Len(p)) = p

\* c in s, for a one-character c
Contains(s, c) == \E i \in 1..Len(s) : Char(s, i) = c

\* s.count(c), for a one-character c
Count(s, c) == Cardinality({i \in 1..Len(s) : Char(s, i) = c})

RECURSIVE Remove(_, _)
\* s.replace(c, ""), for a one-character c
Remove(s, c) ==
    IF s = "" THEN ""
    ELSE IF Head(s) = c THEN Remove(Tail(s), c)
    ELSE Head(s) \o Remove(Tail(s), c)

Whitespace == {" ", "\t", "\r", "\n"}

RECURSIVE LStrip(_, _)
\* s.lstrip(chars), chars a set of characters
LStrip(s, chars) ==
    IF s # "" /\ Head(s) \in chars THEN LStrip(Tail(s), chars) ELSE s

RECURSIVE RStrip(_, _)
RStrip(s, chars) ==
    IF s # "" /\ Char(s, Len(s)) \in chars
    THEN RStrip(SubSeq(s, 1, Len(s) - 1), chars)
    ELSE s

\* s.strip()
Strip(s) == RStrip(LStrip(s, Whitespace), Whitespace)

LowerLetters == "abcdefghijklmnopqrstuvwxyz"
UpperLetters == "ABCDEFGHIJKLMNOPQRSTUVWXYZ"

UpperChar(c) ==
    IF \E i \in 1..26 : Char(LowerLetters, i) = c
    THEN Char(UpperLetters, CHOOSE i \in 1..26 : Char(LowerLetters, i) = c)
    ELSE c

LowerChar(c) ==
    IF \E i \in 1..26 : Char(UpperLetters, i) = c
    THEN Char(LowerLetters, CHOOSE i \in 1..26 : Char(UpperLetters, i) = c)
    ELSE c

RECURSIVE Upper(_)
\* s.upper()
Upper(s) == IF s = "" THEN "" ELSE UpperChar(Head(s)) \o Upper(Tail(s))

RECURSIVE Lower(_)
\* s.lower()
Lower(s) == IF s = "" THEN "" ELSE LowerChar(Head(s)) \o Lower(Tail(s))

RECURSIVE SplitFrom(_, _, _)
\* the pieces of s cut at every occurrence of the character sep, cur being
\* the piece under construction
SplitFrom(s, sep, cur) ==
    IF s = "" THEN <<cur>>
    ELSE IF Head(s) = sep THEN <<cur>> \o SplitFrom(Tail(s), sep, "")
    ELSE SplitFrom(Tail(s), sep, cur \o Head(s))

\* s.split(sep), for a one-character sep
Split(s, sep) == SplitFrom(s, sep, "")

RECURSIVE Join(_)
\* "".join(list)
Join(list) == IF list = <<>> THEN "" ELSE Head(list) \o Join(Tail(list))

\* x in list
InList(x, list) == \E i \in 1..Len(list) : list[i] = x

\* list.index(x), 1-based; only used where x is in list
Index(x, list) == CHOOSE i \in 1..Len(list) :
                    list[i] = x /\ \A j \in 1..(i - 1) : list[j] # x

Digits == {"0", "1", "2", "3", "4", "5", "6", "7", "8", "9"}

DigitVal(c) == CHOOSE n \in 0..9 : Char("0123456789", n + 1) = c

\* int(s) succeeds: an optional sign followed by one or more digits
IsInt(s) ==
    LET body == IF s # "" /\ Head(s) \in {"-", "+"} THEN Tail(s) ELSE s
    IN  body # "" /\ \A i \in 1..Len(body) : Char(body, i) \in Digits

RECURSIVE NatVal(_, _)
NatVal(s, acc) ==
    IF s = "" THEN acc ELSE NatVal(Tail(s), 10 * acc + DigitVal(Head(s)))

\* int(s), where IsInt(s)
Int_(s) ==
    IF Head(s) = "-" THEN 0 - NatVal(Tail(s), 0)
    ELSE IF Head(s) = "+" THEN NatVal(Tail(s), 0)
    ELSE NatVal(s, 0)

\* list[k] for a 0-based Python index k does not raise IndexError
InRange(list, k) == 0 - Len(list) <= k /\ k < Len(list)

\* list[k] for a 0-based Python index k (a negative k counts from the end)
At(list, k) == IF k >= 0 THEN list[k + 1] ELSE list[Len(list) + k + 1]

EmptyDict == <<>>

\* d after d[k] = v
DictSet(d, k, v) == (k :> v) @@ d

\* d.get(k, default)
DictGet(d, k, default) == IF k \in DOMAIN d THEN d[k] ELSE default

\* s.replace(c, d), for one-character c and d
RECURSIVE ReplaceChar(_, _, _)
ReplaceChar(s, c, d) ==
    IF s = "" THEN ""
    ELSE (IF Head(s) = c THEN d ELSE Head(s)) \o ReplaceChar(Tail(s), c, d)

----------------------------------------------------------------------------
(* utils.py: parse_vcf                                                     *)

\* header_cols = None; `if header_cols:` is false for None and for an empty
\* list alike, and split never returns an empty list
None_header_cols == <<>>

\* rec = dict(zip(header_cols, parts)): zip stops at the shorter list, and a
\* repeated column name keeps the value of its last occurrence
ZipDict(header_cols, parts) ==
    LET n == IF Len(header_cols) < Len(parts) THEN Len(header_cols) ELSE Len(parts)
    IN  [k \in {header_cols[i] : i \in 1..n} |->
            parts[CHOOSE i \in 1..n :
                    header_cols[i] = k /\ \A j \in (i + 1)..n : header_cols[j] # k]]

\* ResolveAllele indexing the ALT list with idx instead of idx - 1
ResolveAllele_ZeroBased(allele_token, ref, alt) ==
    IF allele_token = "." THEN "."
    ELSE IF allele_token = "0" THEN ref
    ELSE IF allele_token = "1"
         THEN (IF Contains(alt, ",") THEN Split(alt, ",")[1] ELSE alt)
    ELSE IF IsInt(allele_token) /\ InRange(Split(alt, ","), Int_(allele_token))
         THEN At(Split(alt, ","), Int_(allele_token))
         ELSE "."

\* the body of the loop over the tokens of gt: the allele one token stands for
ResolveAllele(allele_token, ref, alt) ==
    IF allele_token = "." THEN "."
    ELSE IF allele_token = "0" THEN ref
    ELSE IF allele_token = "1"
         THEN (IF Contains(alt, ",") THEN Split(alt, ",")[1] ELSE alt)
    ELSE IF IsInt(allele_token) /\ InRange(Split(alt, ","), Int_(allele_token) - 1)
         THEN At(Split(alt, ","), Int_(allele_token) - 1)
         ELSE "."

\* gt.replace("|", "/").split("/")
GtTokens(gt) == Split(ReplaceChar(gt, "|", "/"), "/")

\* genotype = "".join(alleles) for the alleles of the tokens of gt, in order
ResolveGT(gt, ref, alt) ==
    LET tokens == GtTokens(gt)
    IN  Join([i \in 1..Len(tokens) |-> ResolveAllele(tokens[i], ref, alt)])

\* the condition of `if "FORMAT" in rec and len(parts) > index("FORMAT") + 1`
HasSample(header_cols, parts) ==
    /\ "FORMAT" \in DOMAIN ZipDict(header_cols, parts)
    /\ Len(parts) > Index("FORMAT", header_cols)

\* the FORMAT branch: kind "str" with the resolved genotype, kind "None" when
\* GT is not in FORMAT (ValueError caught), kind "IndexError" when the sample
\* has no subfield at the position of GT (sample_vals[gt_index], not caught)
SampleGenotype(header_cols, parts, ref, alt) ==
    LET rec         == ZipDict(header_cols, parts)
        fmt         == Split(rec["FORMAT"], ":")
        sample      == parts[Index("FORMAT", header_cols) + 1]
        sample_vals == Split(sample, ":")
    IN  IF ~InList("GT", fmt) THEN [kind |-> "None", value |-> ""]
        ELSE IF Index("GT", fmt) > Len(sample_vals)
             THEN [kind |-> "IndexError", value |-> ""]
             ELSE [kind |-> "str",
                   value |-> ResolveGT(sample_vals[Index("GT", fmt)], ref, alt)]

\* the fallback of `if genotype is None`
FallbackGenotype(ref, alt) ==
    IF alt # "" /\ ref # ""
    THEN LET a1 == ref
             a2 == Split(alt, ",")[1]
         IN  IF Len(a1) = 1 /\ Len(a2) = 1 THEN a1 \o a2 ELSE a1 \o "/" \o a2
    ELSE ""

\* StoredGenotype without the removal of the separators
StoredGenotype_Unstripped(genotype) == genotype

\* the value stored in records[rsid]
StoredGenotype(genotype) == Remove(Remove(genotype, "/"), "|")

\* `if rsid and rsid.startswith("rs")`
IsRsid(rsid) == rsid # "" /\ StartsWith(rsid, "rs")

\* one data line under a captured header: the records after it, or the
\* uncaught IndexError
ParseRecord(header_cols, parts, recs) ==
    LET rec  == ZipDict(header_cols, parts)
        rsid == Strip(DictGet(rec, "ID", ""))
        ref  == Strip(DictGet(rec, "REF", ""))
        alt  == Strip(DictGet(rec, "ALT", ""))
        got  == IF HasSample(header_cols, parts)
                THEN SampleGenotype(header_cols, parts, ref, alt)
                ELSE [kind |-> "None", value |-> ""]
        genotype == IF got.kind = "None" THEN FallbackGenotype(ref, alt)
                    ELSE got.value
    IN  IF got.kind = "IndexError"
        THEN [raised |-> TRUE, records |-> recs]
        ELSE [raised |-> FALSE,
              records |-> IF IsRsid(rsid)
                          THEN DictSet(recs, rsid, StoredGenotype(genotype))
                          ELSE recs]

RECURSIVE ParseLines(_, _, _)
\* the loop `for line in text`, from the state (header_cols, recs)
ParseLines(lines, header_cols, recs) ==
    IF lines = <<>> THEN [raised |-> FALSE, records |-> recs]
    ELSE LET line == Head(lines)
             rest == Tail(lines)
         IN  IF StartsWith(line, "##") THEN ParseLines(rest, header_cols, recs)
             ELSE IF StartsWith(line, "#CHROM")
                  THEN ParseLines(rest, Split(LStrip(line, {"#"}), "\t"), recs)
             ELSE IF Strip(line) = "" THEN ParseLines(rest, header_cols, recs)
             ELSE IF header_cols # None_header_cols
                  THEN LET r == ParseRecord(header_cols, Split(line, "\t"), recs)
                       IN  IF r.raised THEN r
                           ELSE ParseLines(rest, header_cols, r.records)
             ELSE ParseLines(rest, header_cols, recs)

\* parse_vcf(uploaded_file), text being the decoded lines of the file
parse_vcf(lines) == ParseLines(lines, None_header_cols, EmptyDict)

----------------------------------------------------------------------------
(* utils.py: parse_23andme_csv                                             *)

\* df = pd.read_csv(uploaded_file, ...): the first line of the table gives
\* the column labels, the lines after it are the rows
read_csv(uploaded_table) ==
    [columns |-> Head(uploaded_table), rows |-> Tail(uploaded_table)]

\* gt.replace("/", "").replace("|", "").replace(" ", "")
NormalizeGenotype(gt) == Remove(Remove(Remove(gt, "/"), "|"), " ")

\* cols = [c.lower() for c in df.columns]
LowerCols(columns) == [i \in 1..Len(columns) |-> Lower(columns[i])]

\* `if "rsid" in cols and "genotype" in cols`
HasRsidGenotype(columns) ==
    InList("rsid", LowerCols(columns)) /\ InList("genotype", LowerCols(columns))

\* `if any(str(h).lower().startswith("rs") for h in header)`
AnyHeaderRs(columns) ==
    \E i \in 1..Len(columns) : StartsWith(Lower(columns[i]), "rs")

\* LabelledRow keeping the first genotype seen for an rsid
LabelledRow_KeepFirst(row, rs_col, gt_col, result) ==
    LET rs == Strip(row[rs_col])
        gt == Upper(Strip(row[gt_col]))
    IN  IF rs # "" /\ StartsWith(rs, "rs") /\ rs \notin DOMAIN result
        THEN DictSet(result, rs, NormalizeGenotype(gt))
        ELSE result

\* the body of the loop of the rsid/genotype layout: result after one row;
\* rs_col and gt_col are the positions of the two columns
LabelledRow(row, rs_col, gt_col, result) ==
    LET rs == Strip(row[rs_col])
        gt == Upper(Strip(row[gt_col]))
    IN  IF rs # "" /\ StartsWith(rs, "rs")
        THEN DictSet(result, rs, NormalizeGenotype(gt))
        ELSE result

RECURSIVE LabelledRows(_, _, _, _)
\* the loop over df.iterrows() of the rsid/genotype layout
LabelledRows(rows, rs_col, gt_col, result) ==
    IF rows = <<>> THEN result
    ELSE LabelledRows(Tail(rows), rs_col, gt_col,
                      LabelledRow(Head(rows), rs_col, gt_col, result))

\* the body of the loop of the two-column fallback: result after one row
PairRow(row, result) ==
    IF Len(row) >= 2 /\ StartsWith(Strip(row[1]), "rs")
    THEN DictSet(result, Strip(row[1]), NormalizeGenotype(Upper(Strip(row[2]))))
    ELSE result

RECURSIVE PairRows(_, _)
\* the loop over df.iterrows() of the two-column fallback
PairRows(rows, result) ==
    IF rows = <<>> THEN result
    ELSE PairRows(Tail(rows), PairRow(Head(rows), result))

\* the gene-expression style: each column label mapped to the value of the
\* first row under it
GeneRow(columns, row0) ==
    [key \in {Strip(columns[i]) : i \in 1..Len(columns)} |->
        Strip(row0[CHOOSE i \in 1..Len(columns) :
                     Strip(columns[i]) = key
                     /\ \A j \in (i + 1)..Len(columns) : Strip(columns[j]) # key])]

\* parse_23andme_csv(uploaded_file); df.iloc[0] raises IndexError on a table
\* without rows
parse_23andme_csv(uploaded_table) ==
    LET d    == read_csv(uploaded_table)
        cols == LowerCols(d.columns)
    IN  IF HasRsidGenotype(d.columns)
        THEN [raised |-> FALSE,
              records |-> LabelledRows(d.rows, Index("rsid", cols),
                                       Index("genotype", cols), EmptyDict)]
        ELSE IF AnyHeaderRs(d.columns)
             THEN [raised |-> FALSE, records |-> PairRows(d.rows, EmptyDict)]
        ELSE IF d.rows = <<>>
             THEN [raised |-> TRUE, records |-> EmptyDict]
             ELSE [raised |-> FALSE, records |-> GeneRow(d.columns, d.rows[1])]

----------------------------------------------------------------------------
(* model.py: the gene decision functions                                   *)

\* `if gt:` for gt = found.get(r): the key is present and its value non-empty
Truthy(found, r) == r \in DOMAIN found /\ found[r] # ""

call_cyp2d6_phenotype(found) ==
    LET has_389 == "rs3892097" \in DOMAIN found
        has_106 == "rs1065852" \in DOMAIN found
    IN  IF has_389 /\ Contains(found["rs3892097"], "G")
                   /\ Count(found["rs3892097"], "G") = 2 THEN "poor"
        ELSE IF has_389 /\ Contains(found["rs3892097"], "G")
                        /\ Count(found["rs3892097"], "G") = 1 THEN "intermediate"
        ELSE IF has_106 /\ Count(found["rs1065852"], "A") = 2 THEN "poor"
        ELSE IF has_106 /\ Count(found["rs1065852"], "A") = 1 THEN "intermediate"
        ELSE "normal"

\* the loss count of call_cyp2c19_phenotype
Cyp2c19Loss(found) ==
    IF Truthy(found, "rs4244285") THEN Count(found["rs4244285"], "A") ELSE 0

\* the gain count of call_cyp2c19_phenotype
Cyp2c19Gain(found) ==
    IF Truthy(found, "rs12248560") THEN Count(found["rs12248560"], "T") ELSE 0

call_cyp2c19_phenotype(found) ==
    LET loss == Cyp2c19Loss(found)
        gain == Cyp2c19Gain(found)
    IN  IF loss >= 2 THEN "poor"
        ELSE IF loss = 1 THEN "intermediate"
        ELSE IF gain >= 1 THEN (IF gain = 1 THEN "rapid" ELSE "ultrarapid")
        ELSE "normal"

\* loss_count of call_cyp2c9_phenotype
Cyp2c9Loss(found) ==
    (IF Truthy(found, "rs1799853") THEN Count(found["rs1799853"], "T") ELSE 0)
    + (IF Truthy(found, "rs1057910") THEN Count(found["rs1057910"], "C") ELSE 0)

call_cyp2c9_phenotype(found) ==
    LET loss_count == Cyp2c9Loss(found)
    IN  IF loss_count >= 2 THEN "poor"
        ELSE IF loss_count = 1 THEN "intermediate"
        ELSE "normal"

call_ugt1a1_phenotype(found) ==
    IF ~Truthy(found, "rs887829") THEN "normal"
    ELSE LET tcount == Count(found["rs887829"], "T")
         IN  IF tcount >= 2 THEN "poor"
             ELSE IF tcount = 1 THEN "intermediate"
             ELSE "normal"

----------------------------------------------------------------------------
(* model.py: DRUGS and compute_drug_scores                                 *)

\* DRUGS, in its declared (insertion) order
DRUGS == <<
    [name |-> "Codeine",
     description |-> "Codeine is converted to morphine by CYP2D6. Poor metabolizers get little pain relief; ultrarapid may have toxicity.",
     gene_rsids |-> <<"rs1065852", "rs3892097">>,
     type |-> "prodrug_cytochrome2d6"],
    [name |-> "Clopidogrel",
     description |-> "Clopidogrel requires activation by CYP2C19. Poor metabolizers have reduced antiplatelet effect.",
     gene_rsids |-> <<"rs4244285", "rs12248560">>,
     type |-> "prodrug_cytochrome2c19"],
    [name |-> "Ibuprofen",
     description |-> "Ibuprofen is metabolized by CYP2C9. Reduced function increases exposure and side-effect risk.",
     gene_rsids |-> <<"rs1799853", "rs1057910">>,
     type |-> "metabolized_cytochrome2c9"],
    [name |-> "Paracetamol",
     description |-> "Paracetamol is largely glucuronidated (UGT1A1) and sulfated; variants may change toxicity risk.",
     gene_rsids |-> <<"rs887829">>,
     type |-> "glucuronidation_ugt1a1"],
    [name |-> "Omeprazole",
     description |-> "Omeprazole is metabolized by CYP2C19; poor metabolizers have higher exposure.",
     gene_rsids |-> <<"rs4244285", "rs12248560">>,
     type |-> "prodrug_cytochrome2c19"] >>

\* found: the entries of snp_dict at the drug's gene_rsids
Found(rsids, dict) ==
    [r \in {rsids[i] : i \in 1..Len(rsids)} \cap DOMAIN dict |-> dict[r]]

\* the phenotype the drug's type tag dispatches to
PhenotypeOf(typ, found) ==
    IF typ = "prodrug_cytochrome2d6" THEN call_cyp2d6_phenotype(found)
    ELSE IF typ = "prodrug_cytochrome2c19" THEN call_cyp2c19_phenotype(found)
    ELSE IF typ = "metabolized_cytochrome2c9" THEN call_cyp2c9_phenotype(found)
    ELSE IF typ = "glucuronidation_ugt1a1" THEN call_ugt1a1_phenotype(found)
    ELSE "unknown"

\* the scores of the prodrug_cytochrome2d6 branch
Cyp2d6Score(phenotype) ==
    IF phenotype = "poor" THEN 10
    ELSE IF phenotype = "intermediate" THEN 40
    ELSE IF phenotype = "normal" THEN 85
    ELSE IF phenotype = "rapid" THEN 95
    ELSE 99

\* Cyp2c19Score without the `if drug == "Clopidogrel"` distinction: every
\* drug of the type scored by the Clopidogrel table
Cyp2c19Score_OneDirection(drug, phenotype) ==
    IF phenotype = "poor" THEN 20
    ELSE IF phenotype = "intermediate" THEN 50
    ELSE 90

\* the scores of the prodrug_cytochrome2c19 branch: Clopidogrel, and any
\* other drug of the type (Omeprazole)
Cyp2c19Score(drug, phenotype) ==
    IF drug = "Clopidogrel"
    THEN (IF phenotype = "poor" THEN 20
          ELSE IF phenotype = "intermediate" THEN 50
          ELSE IF phenotype \in {"rapid", "ultrarapid"} THEN 90
          ELSE 90)
    ELSE (IF phenotype = "poor" THEN 95
          ELSE IF phenotype = "intermediate" THEN 75
          ELSE 60)

\* the scores of the metabolized_cytochrome2c9 branch
Cyp2c9Score(phenotype) ==
    IF phenotype = "poor" THEN 70
    ELSE IF phenotype = "intermediate" THEN 80
    ELSE 85

\* the scores of the glucuronidation_ugt1a1 branch
Ugt1a1Score(phenotype) ==
    IF phenotype = "poor" THEN 60
    ELSE IF phenotype = "intermediate" THEN 75
    ELSE 88

\* the score the drug's type tag dispatches to
ScoreOf(drug, typ, phenotype) ==
    IF typ = "prodrug_cytochrome2d6" THEN Cyp2d6Score(phenotype)
    ELSE IF typ = "prodrug_cytochrome2c19" THEN Cyp2c19Score(drug, phenotype)
    ELSE IF typ = "metabolized_cytochrome2c9" THEN Cyp2c9Score(phenotype)
    ELSE IF typ = "glucuronidation_ugt1a1" THEN Ugt1a1Score(phenotype)
    ELSE 50

RECURSIVE ReprItems(_, _)
\* the items of str(found), in the insertion order of found (that of rsids)
ReprItems(rsids, found) ==
    IF rsids = <<>> THEN ""
    ELSE LET r    == Head(rsids)
             rest == ReprItems(Tail(rsids), found)
         IN  IF r \in DOMAIN found
             THEN "'" \o r \o "': '" \o found[r] \o "'"
                  \o (IF rest = "" THEN "" ELSE ", " \o rest)
             ELSE rest

\* Explanation printing found even when it is empty
Explanation_AlwaysFound(meta, found, phenotype) ==
    meta.description \o " Detected genotype markers: "
    \o "{" \o ReprItems(meta.gene_rsids, found) \o "}"
    \o " => phenotype: " \o phenotype \o "."

\* the explanation f-string
Explanation(meta, found, phenotype) ==
    meta.description \o " Detected genotype markers: "
    \o (IF found # EmptyDict
        THEN "{" \o ReprItems(meta.gene_rsids, found) \o "}"
        ELSE "none found in file.")
    \o " => phenotype: " \o phenotype \o "."

\* one iteration of `for drug, meta in DRUGS.items()`: results[drug]
DrugResult(meta, dict) ==
    LET found     == Found(meta.gene_rsids, dict)
        phenotype == PhenotypeOf(meta.type, found)
    IN  [drug        |-> meta.name,
         score       |-> ScoreOf(meta.name, meta.type, phenotype),
         phenotype   |-> phenotype,
         explanation |-> Explanation(meta, found, phenotype)]

\* compute_drug_scores leaving out the drugs none of whose rsIDs is in the map
compute_drug_scores_SkipUnmatched(dict) ==
    LET all == [i \in 1..Len(DRUGS) |-> DrugResult(DRUGS[i], dict)]
        Matched(r) == \E i \in 1..Len(DRUGS) :
                        /\ DRUGS[i].name = r.drug
                        /\ Found(DRUGS[i].gene_rsids, dict) # EmptyDict
    IN  SelectSeq(all, Matched)

\* compute_drug_scores(snp_dict): the results, in insertion order
compute_drug_scores(dict) == [i \in 1..Len(DRUGS) |-> DrugResult(DRUGS[i], dict)]

----------------------------------------------------------------------------
(* The inputs explored.                                                    *)

\* the sequences over S of length at most n
SeqUpTo(S, n) == UNION {[1..k -> S] : k \in 0..n}

VcfHeader == "#CHROM\tPOS\tID\tREF\tALT\tQUAL\tFILTER\tINFO\tFORMAT\tSAMPLE"

\* lines an uploaded VCF may hold: the header, a meta line, a blank line,
\* well-formed records with and without a sample, and malformed records
VcfLines == {
    VcfHeader,
    "##fileformat=VCFv4.2",
    "",
    "22\t1\trs3892097\tG\tA\t.\t.\t.\tGT\t1/1",
    "22\t1\trs3892097\tG\tA\t.\t.\t.\tGT:DP\t0|1:30",
    "10\t2\trs4244285\tG\tA,T\t.\t.\t.\tGT\t2/1",
    "10\t2\trs4244285\tG\tA,T\t.\t.\t.\tDP:GT\t30:1/2",
    "10\t3\trs12248560\tC\tT\t.\t.\t.\tGT\t./1",
    "10\t3\trs12248560\tC\tT\t.\t.\t.\tGT\t3/0",
    "22\t4\trs1065852\tG\tA\t.\t.\t.\tDP:GT\t30",
    "22\t4\trs1065852\tG\tA",
    "2\t5\trs887829",
    "2\t5\trs887829\tCT\tC\t.\t.\t.\tDP\t30",
    "10\t6\trs1799853\tc\tt\t.\t.\t.\tGT\t0/1",
    "10\t7\trs1057910\tA\tC\t.\t.\t.\tGT",
    "1\t8\t.\tA\tG\t.\t.\t.\tGT\t0/1" }

VcfTexts == SeqUpTo(VcfLines, MaxLines)

\* header lines of an uploaded table
CsvHeaders == { <<"rsid", "genotype">>, <<"Genotype", "RSID">>,
                <<"CYP2D6", "CYP2C19">> }

\* data lines of an uploaded table
CsvRows == { <<"rs4244285", "A/A">>, <<"rs4244285", "A|A">>,
             <<"rs4244285", "a a">>, <<"rs4244285", "AA">>,
             <<"rs4244285", "g|a">>, <<" rs3892097 ", " a/g ">>,
             <<"i3000001", "CT">>, <<"RS887829", "TT">>,
             <<"TT", "rs887829">> }

\* a table is a first line (a header, or a data line when the file has no
\* header) and at most MaxRows further lines
CsvTables == {<<first>> \o rest : first \in CsvHeaders \cup CsvRows,
                                  rest \in SeqUpTo(CsvRows, MaxRows)}

\* the rsIDs of RSID_TO_GENE
RSID_TO_GENE == [r \in {"rs4244285", "rs12248560", "rs1065852", "rs3892097",
                        "rs1799853", "rs1057910", "rs887829"} |->
    CASE r \in {"rs4244285", "rs12248560"} -> "CYP2C19"
      [] r \in {"rs1065852", "rs3892097"}  -> "CYP2D6"
      [] r \in {"rs1799853", "rs1057910"}  -> "CYP2C9"
      [] OTHER                             -> "UGT1A1"]

\* genotype strings tried at each rsID of a marker map
GenotypesAt(r) ==
    CASE r \in {"rs3892097", "rs1065852"} -> <<"AG", "GG", "AA">>
      [] r = "rs4244285"                  -> <<"AG", "AA", "GG", "">>
      [] r = "rs1057910"                  -> <<"AC", "CC", "AA">>
      [] OTHER                            -> <<"CT", "TT", "CC">>

\* marker maps: every rsID absent (0) or holding one of its genotypes
MarkerMaps ==
    {[r \in {q \in DOMAIN RSID_TO_GENE : pick[q] # 0} |-> GenotypesAt(r)[pick[r]]] :
        pick \in {p \in [DOMAIN RSID_TO_GENE -> 0..4] :
                    \A r \in DOMAIN RSID_TO_GENE : p[r] <= Len(GenotypesAt(r))}}

----------------------------------------------------------------------------
(* The state machine: one call of one of the three entry points.           *)

Init ==
    /\ pc = "call"
    /\ records = EmptyDict
    /\ results = <<>>
    /\ \/ /\ entry = "parse_vcf"
          /\ text \in VcfTexts
          /\ df = <<>>
          /\ snp_dict = EmptyDict
       \/ /\ entry = "parse_23andme_csv"
          /\ text = <<>>
          /\ df \in CsvTables
          /\ snp_dict = EmptyDict
       \/ /\ entry = "compute_drug_scores"
          /\ text = <<>>
          /\ df = <<>>
          /\ snp_dict \in MarkerMaps

\* parse_vcf(uploaded_file) runs to its return or to the exception it raises
ParseVcf ==
    /\ entry = "parse_vcf"
    /\ pc = "call"
    /\ LET r == parse_vcf(text)
       IN  /\ pc' = IF r.raised THEN "IndexError" ELSE "return"
           /\ records' = r.records
    /\ UNCHANGED <<entry, text, df, snp_dict, results>>

\* parse_23andme_csv(uploaded_file) runs to its return or to its exception
ParseCsv ==
    /\ entry = "parse_23andme_csv"
    /\ pc = "call"
    /\ LET r == parse_23andme_csv(df)
       IN  /\ pc' = IF r.raised THEN "IndexError" ELSE "return"
           /\ records' = r.records
    /\ UNCHANGED <<entry, text, df, snp_dict, results>>

\* compute_drug_scores(snp_dict) runs to its return
ComputeDrugScores ==
    /\ entry = "compute_drug_scores"
    /\ pc = "call"
    /\ results' = compute_drug_scores(snp_dict)
    /\ pc' = "return"
    /\ UNCHANGED <<entry, text, df, snp_dict, records>>

Next == ParseVcf \/ ParseCsv \/ ComputeDrugScores

Spec == Init /\ [][Next]_vars

----------------------------------------------------------------------------
(* Properties.                                                             *)

\* the entry point has returned
Returned(e) == entry = e /\ pc = "return"

\* the result for the drug called name, among rs
ResultFor(rs, name) == rs[CHOOSE i \in 1..Len(rs) : rs[i].drug = name]

\* the VCF of C1: the header and one record with ID rs3892097, REF G, ALT A,
\* FORMAT GT and sample 1/1
C1Text == <<VcfHeader, "22\t1\trs3892097\tG\tA\t.\t.\t.\tGT\t1/1">>

\* C1: parse_vcf on the VCF whose record has ID=rs3892097, REF=G, ALT=A,
\* FORMAT=GT and sample 1/1 returns rs3892097 -> "AA", and both
\* call_cyp2d6_phenotype on that entry and the Codeine result of
\* compute_drug_scores on that map give phenotype "poor".
C1_RoundTripPoor ==
    (Returned("parse_vcf") /\ text = C1Text) =>
        /\ records = ("rs3892097" :> "AA")
        /\ call_cyp2d6_phenotype(records) = "poor"
        /\ ResultFor(compute_drug_scores(records), "Codeine").phenotype = "poor"

\* C2: on {"rs4244285": "AA"} Clopidogrel is "poor" with a score of at most
\* 25 and Omeprazole is "poor" with a score of at least 90; and whenever the
\* CYP2C19 phenotype is "poor", both drugs report "poor" and the Clopidogrel
\* score is strictly below the Omeprazole score.
C2_DirectionAwareScoring ==
    Returned("compute_drug_scores") =>
        LET clo == ResultFor(results, "Clopidogrel")
            ome == ResultFor(results, "Omeprazole")
        IN  /\ snp_dict = ("rs4244285" :> "AA") =>
                /\ clo.phenotype = "poor" /\ clo.score <= 25
                /\ ome.phenotype = "poor" /\ ome.score >= 90
            /\ (clo.phenotype = "poor" \/ ome.phenotype = "poor") =>
                /\ clo.phenotype = "poor" /\ ome.phenotype = "poor"
                /\ clo.score < ome.score

\* C2's case: the map {"rs4244285": "AA"} has been scored, 20 against 95
C2_Witness ==
    /\ Returned("compute_drug_scores")
    /\ snp_dict = ("rs4244285" :> "AA")
    /\ ResultFor(results, "Clopidogrel").score = 20
    /\ ResultFor(results, "Omeprazole").score = 95

PhenotypeLabels ==
    {"poor", "intermediate", "normal", "rapid", "ultrarapid", "unknown"}

\* what C3 requires of the results of one call
OnePerDrug(rs) ==
    /\ [i \in 1..Len(rs) |-> rs[i].drug] =
          <<"Codeine", "Clopidogrel", "Ibuprofen", "Paracetamol", "Omeprazole">>
    /\ [i \in 1..Len(rs) |-> rs[i].drug] = [i \in 1..Len(DRUGS) |-> DRUGS[i].name]
    /\ \A i \in 1..Len(rs) :
          rs[i].score \in 0..100 /\ rs[i].phenotype \in PhenotypeLabels

\* C3: for every marker map, the empty one and the maps the parsers return
\* included, compute_drug_scores returns exactly one result per drug of DRUGS,
\* in the declared order Codeine, Clopidogrel, Ibuprofen, Paracetamol,
\* Omeprazole, each with a score in 0..100 and a phenotype of the closed set.
C3_OneResultPerDrug ==
    /\ Returned("compute_drug_scores") => OnePerDrug(results)
    /\ (Returned("parse_vcf") \/ Returned("parse_23andme_csv")) =>
          OnePerDrug(compute_drug_scores(records))

\* C3's case: a map without any rsID of Codeine and Paracetamol has been scored
C3_Witness ==
    /\ Returned("compute_drug_scores")
    /\ DOMAIN snp_dict = {"rs4244285", "rs1057910"}
    /\ Len(results) = 5

\* the score of the normal phenotype, per drug
NormalScore(name) ==
    CASE name = "Codeine"     -> 85
      [] name = "Clopidogrel" -> 90
      [] name = "Ibuprofen"   -> 85
      [] name = "Paracetamol" -> 88
      [] name = "Omeprazole"  -> 60

\* what C4 requires of the results rs of the map dict
DefaultsWhenUnmatched(dict, rs) ==
    \A i \in 1..Len(DRUGS) :
        (\A j \in 1..Len(DRUGS[i].gene_rsids) :
            DRUGS[i].gene_rsids[j] \notin DOMAIN dict) =>
            LET r == ResultFor(rs, DRUGS[i].name)
            IN  /\ r.phenotype = "normal"
                /\ r.score = NormalScore(DRUGS[i].name)
                /\ r.explanation =
                      DRUGS[i].description
                      \o " Detected genotype markers: none found in file."
                      \o " => phenotype: normal."

\* C4: for every marker map holding none of a drug's gene_rsids,
\* compute_drug_scores returns, and that drug's result has phenotype "normal",
\* the drug's normal score (Codeine 85, Clopidogrel 90, Ibuprofen 85,
\* Paracetamol 88, Omeprazole 60) and the "none found in file." explanation.
C4_DefaultsWhenUnmatched ==
    /\ Returned("compute_drug_scores") => DefaultsWhenUnmatched(snp_dict, results)
    /\ (Returned("parse_vcf") \/ Returned("parse_23andme_csv")) =>
          DefaultsWhenUnmatched(records, compute_drug_scores(records))

\* C4's case: a map with CYP2C19 markers only has been scored, and Codeine,
\* none of whose rsIDs it holds, is normal at 85
C4_Witness ==
    /\ Returned("compute_drug_scores")
    /\ snp_dict = ("rs4244285" :> "AA")
    /\ ResultFor(results, "Codeine").phenotype = "normal"
    /\ ResultFor(results, "Codeine").score = 85

----------------------------------------------------------------------------
(* Properties of parse_vcf, stated on the lines of the text by the column  *)
(* positions of the VCF layout (ID 3, REF 4, ALT 5, FORMAT 9, sample 10).  *)

Fields(line) == Split(line, "\t")

\* the n-th tab-separated field of the line, stripped; "" when it has none
Field(line, n) == IF Len(Fields(line)) >= n THEN Strip(Fields(line)[n]) ELSE ""

\* a line that is neither meta-information, nor a header, nor blank
IsDataLine(line) ==
    ~StartsWith(line, "##") /\ ~StartsWith(line, "#CHROM") /\ Strip(line) # ""

\* line i of the text is a data line that follows a header line
RecordAt(i) ==
    /\ IsDataLine(text[i])
    /\ \E j \in 1..(i - 1) : text[j] = VcfHeader

\* the position of GT among the subfields of FORMAT, 0 when it has none
GtPosition(line) ==
    LET fmt == Split(Field(line, 9), ":")
    IN  IF Len(Fields(line)) >= 9 /\ InList("GT", fmt) THEN Index("GT", fmt) ELSE 0

\* the GT value of the sample column, when the sample has that subfield
HasGt(line) ==
    /\ Len(Fields(line)) >= 10
    /\ GtPosition(line) > 0
    /\ Len(Split(Fields(line)[10], ":")) >= GtPosition(line)

GtOf(line) == Split(Fields(line)[10], ":")[GtPosition(line)]

\* the structural failures named by C5: fewer than 5 fields, fewer fields
\* than the header, or a sample with fewer subfields than the position of GT
Malformed(line) ==
    \/ Len(Fields(line)) < 5
    \/ Len(Fields(line)) < Len(Split(VcfHeader, "\t"))
    \/ GtPosition(line) > 0 /\ ~HasGt(line)

\* no later data line carries the ID of line i
LastForId(i) ==
    \A j \in (i + 1)..Len(text) :
        IsDataLine(text[j]) => Field(text[j], 3) # Field(text[i], 3)

\* C5: a data line that fails structural expectations is dropped without
\* aborting: parse_vcf does not raise, a malformed line adds no entry (its ID
\* is a key only if a well-formed record carries it too), and every
\* well-formed rs-prefixed record before and after it is in the map.
C5_MalformedLinesDropped ==
    (entry = "parse_vcf" /\ pc # "call") =>
        /\ pc = "return"
        /\ \A i \in 1..Len(text) :
              (RecordAt(i) /\ Malformed(text[i])
               /\ \A j \in 1..Len(text) :
                     (RecordAt(j) /\ Field(text[j], 3) = Field(text[i], 3))
                        => Malformed(text[j]))
                 => Field(text[i], 3) \notin DOMAIN records
        /\ \A i \in 1..Len(text) :
              (RecordAt(i) /\ ~Malformed(text[i]) /\ IsRsid(Field(text[i], 3)))
                 => Field(text[i], 3) \in DOMAIN records

\* the allele C6 gives a GT token: "." the missing marker, "0" REF, "1" the
\* first ALT allele, n the n-th allele of the comma-split ALT list
ClaimedAllele(token, ref, alts) ==
    CASE token = "." -> "."
      [] token = "0" -> ref
      [] token = "1" -> alts[1]
      [] OTHER       -> alts[DigitVal(token)]

\* the tokens C6 speaks of: ".", "0", "1", and an n that the ALT list has
ClaimedToken(token, alts) ==
    \/ token \in {".", "0", "1"}
    \/ token \in Digits /\ DigitVal(token) \in 2..Len(alts)

\* C6: when FORMAT contains GT and the sample has the GT subfield, the stored
\* genotype is the concatenation, in GT token order, of the alleles of the
\* tokens ("0" REF, "1" first ALT, n the n-th ALT, "." the missing marker);
\* ALT=A,T with GT 2/1 gives "TA" and with GT 1/2 gives "AT".
C6_GtResolution ==
    Returned("parse_vcf") =>
        \A i \in 1..Len(text) :
            LET line   == text[i]
                ref    == Field(line, 4)
                alts   == Split(Field(line, 5), ",")
                tokens == Split(ReplaceChar(GtOf(line), "|", "/"), "/")
            IN  (RecordAt(i) /\ HasGt(line) /\ IsRsid(Field(line, 3)) /\ LastForId(i)
                 /\ \A t \in 1..Len(tokens) : ClaimedToken(tokens[t], alts))
                => /\ records[Field(line, 3)] =
                        Join([t \in 1..Len(tokens) |->
                                ClaimedAllele(tokens[t], ref, alts)])
                   /\ (Field(line, 5) = "A,T" /\ GtOf(line) = "2/1")
                        => records[Field(line, 3)] = "TA"
                   /\ (Field(line, 5) = "A,T" /\ GtOf(line) = "1/2")
                        => records[Field(line, 3)] = "AT"

\* C6's case: a record with ALT=A,T and GT 2/1 has been parsed to "TA"
C6_Witness ==
    /\ Returned("parse_vcf")
    /\ text = <<VcfHeader, "10\t2\trs4244285\tG\tA,T\t.\t.\t.\tGT\t2/1">>
    /\ records = ("rs4244285" :> "TA")

\* C9: when no FORMAT/GT genotype is resolvable for an rs-prefixed record with
\* non-empty REF and ALT, the stored genotype is REF followed by the first ALT
\* allele, concatenated when both are single characters and otherwise joined
\* with "/", the "/" being present in the stored value.
C9_FallbackKeepsSeparator ==
    Returned("parse_vcf") =>
        \A i \in 1..Len(text) :
            LET line == text[i]
                ref  == Field(line, 4)
                alt1 == Split(Field(line, 5), ",")[1]
            IN  (RecordAt(i) /\ (Len(Fields(line)) < 10 \/ GtPosition(line) = 0)
                 /\ IsRsid(Field(line, 3)) /\ ref # "" /\ Field(line, 5) # ""
                 /\ LastForId(i))
                => records[Field(line, 3)] =
                      IF Len(ref) = 1 /\ Len(alt1) = 1 THEN ref \o alt1
                      ELSE ref \o "/" \o alt1

\* C9 as amended: when no FORMAT/GT genotype is resolvable for an rs-prefixed
\* record with non-empty REF and ALT, the stored genotype is REF followed by
\* the first ALT allele with no separator between them, for single- and
\* multi-character alleles alike: the "/" the fallback joins multi-character
\* alleles with is removed, like every "/" and "|", when the value is stored.
C9_FallbackStoredJoined ==
    Returned("parse_vcf") =>
        \A i \in 1..Len(text) :
            LET line == text[i]
                ref  == Field(line, 4)
                alt1 == Split(Field(line, 5), ",")[1]
            IN  (RecordAt(i) /\ (Len(Fields(line)) < 10 \/ GtPosition(line) = 0)
                 /\ IsRsid(Field(line, 3)) /\ ref # "" /\ Field(line, 5) # ""
                 /\ LastForId(i))
                => /\ records[Field(line, 3)] = Remove(Remove(ref \o alt1, "/"), "|")
                   /\ ~Contains(records[Field(line, 3)], "/")

\* C9's case: a record without GT whose REF has two characters has been
\* stored without the separator
C9_Witness ==
    /\ Returned("parse_vcf")
    /\ text = <<VcfHeader, "2\t5\trs887829\tCT\tC\t.\t.\t.\tDP\t30">>
    /\ records = ("rs887829" :> "CTC")

----------------------------------------------------------------------------
(* Properties of parse_23andme_csv and of the stored genotypes.            *)

\* C7: with rsid and genotype columns, the map has exactly one entry per
\* distinct rs-prefixed rsid of the rows, each the normalized genotype of the
\* last row with that rsid, and its size is the number of distinct rsids.
C7_LastWriteWins ==
    (Returned("parse_23andme_csv") /\ HasRsidGenotype(Head(df))) =>
        LET cols   == Head(df)
            rows   == Tail(df)
            rsCol  == CHOOSE c \in 1..Len(cols) : Lower(cols[c]) = "rsid"
            gtCol  == CHOOSE c \in 1..Len(cols) : Lower(cols[c]) = "genotype"
            RsOf(i) == Strip(rows[i][rsCol])
            Keys   == {RsOf(i) : i \in {j \in 1..Len(rows) : StartsWith(RsOf(j), "rs")}}
            Last(k) == CHOOSE i \in 1..Len(rows) :
                          RsOf(i) = k /\ \A j \in (i + 1)..Len(rows) : RsOf(j) # k
        IN  /\ DOMAIN records = Keys
            /\ Cardinality(DOMAIN records) = Cardinality(Keys)
            /\ \A k \in Keys :
                  records[k] = NormalizeGenotype(Upper(Strip(rows[Last(k)][gtCol])))

\* C7's case: an rsid in two rows with different genotypes, the last one kept
C7_Witness ==
    /\ Returned("parse_23andme_csv")
    /\ df = << <<"rsid", "genotype">>,
               <<"rs4244285", "A/A">>, <<"rs4244285", "g|a">> >>
    /\ records = ("rs4244285" :> "GA")

\* the copies of the allele in the genotype at rsID r, none when r is absent
CopiesAt(dict, r, allele) == IF r \in DOMAIN dict THEN Count(dict[r], allele) ELSE 0

\* the classification C8 gives a total of loss copies (gain being the copies
\* of a gain allele, 0 for the genes that have none)
DosagePhenotype(total, gain, phenotype) ==
    /\ (total = 0 /\ gain = 0) => phenotype = "normal"
    /\ total = 1 => phenotype = "intermediate"
    /\ total >= 2 => phenotype = "poor"

\* C8: every gene decision function classifies by the total number of copies
\* of the loss allele summed over the gene's genotype strings in the map:
\* 0 normal (absent gain signals), 1 intermediate, 2 or more poor.
C8_LossDosage ==
    Returned("compute_drug_scores") =>
        /\ DosagePhenotype(CopiesAt(snp_dict, "rs3892097", "G")
                             + CopiesAt(snp_dict, "rs1065852", "A"), 0,
                           ResultFor(results, "Codeine").phenotype)
        /\ DosagePhenotype(CopiesAt(snp_dict, "rs4244285", "A"),
                           CopiesAt(snp_dict, "rs12248560", "T"),
                           ResultFor(results, "Clopidogrel").phenotype)
        /\ DosagePhenotype(CopiesAt(snp_dict, "rs1799853", "T")
                             + CopiesAt(snp_dict, "rs1057910", "C"), 0,
                           ResultFor(results, "Ibuprofen").phenotype)
        /\ DosagePhenotype(CopiesAt(snp_dict, "rs887829", "T"), 0,
                           ResultFor(results, "Paracetamol").phenotype)

\* a genotype without '/', '|', space or lowercase letter
Canonical(g) ==
    \A i \in 1..Len(g) :
        /\ Char(g, i) \notin {"/", "|", " "}
        /\ \A l \in 1..Len(LowerLetters) : Char(g, i) # Char(LowerLetters, l)

\* C10: every genotype in a map returned by parse_vcf or by parse_23andme_csv
\* (rsid/genotype layout or two-column fallback) is canonical: no '/', '|' or
\* space and no lowercase letter.
C10_CanonicalGenotypes ==
    (\/ Returned("parse_vcf")
     \/ Returned("parse_23andme_csv")
        /\ (HasRsidGenotype(Head(df)) \/ AnyHeaderRs(Head(df)))) =>
        \A k \in DOMAIN records : Canonical(records[k])

\* every line of the uploaded table, the first included, is a pair whose
\* first cell is an rs-prefixed rsid, and the first line is no rsid/genotype
\* header
HeaderlessPairs(table) ==
    /\ ~HasRsidGenotype(Head(table))
    /\ \A i \in 1..Len(table) :
          Len(table[i]) = 2 /\ StartsWith(Strip(table[i][1]), "rs")

\* C11: for a headerless two-column file in which every line is an
\* (rs-prefixed rsid, genotype) pair, the fallback of parse_23andme_csv returns
\* a map with an entry for the rsid of every line of the file, the first line
\* included, mapped to the normalized genotype of that line (of the last line
\* carrying that rsid).
C11_HeaderlessPairsAllLines ==
    (entry = "parse_23andme_csv" /\ pc # "call" /\ HeaderlessPairs(df)) =>
        /\ pc = "return"
        /\ \A i \in 1..Len(df) :
              LET rs   == Strip(df[i][1])
                  last == CHOOSE j \in 1..Len(df) :
                            /\ Strip(df[j][1]) = rs
                            /\ \A k \in (j + 1)..Len(df) : Strip(df[k][1]) # rs
              IN  /\ rs \in DOMAIN records
                  /\ records[rs] = NormalizeGenotype(Upper(Strip(df[last][2])))

====
